---- MODULE Spec2Model ----
(***************************************************************************)
(* Model of chronokit/trackers.py: the TimeTracker state machine (start,   *)
(* stop, get_elapsed_time guarded by the _bug_blocker decorator) and its   *)
(* JSON persistence (save, load).                                          *)
(*                                                                         *)
(* Optional values (Python None or a value) are sequences of length 0 or 1 *)
(* so that they can be compared with each other.  Timestamps returned by   *)
(* time.perf_counter() are integers read from a non-decreasing clock.      *)
(* A call that ends in a Python exception leaves the object as the         *)
(* statements executed before the raise left it; the exception's type is   *)
(* recorded in `raised` and the caller may go on using the object.         *)
(*                                                                         *)
(* ExecutionTimeTracker.__call__ is a start(), the wrapped callable and a  *)
(* stop().  The callable is arbitrary code: it returns, raises, or calls   *)
(* the same tracker again, so an invocation spans several steps and the    *)
(* invocations in progress form a stack.                                   *)
(***************************************************************************)
EXTENDS Integers, Sequences, FiniteSets, TLC

VARIABLES name, file_name, is_running, elapsed_time, total_elapsed_time,
          track_log, files, clock, lastOp, ret, raised,
          stack,       \* invocations of __call__ in progress, outermost first
          func_out,    \* self.func_out
          call_out,    \* value returned by the last __call__ that returned
          calls,       \* number of invocations begun so far
          openOwner,   \* invocation whose start() opened the running interval
          plain        \* every invocation so far was top-level and returned

timerVars == <<name, is_running, elapsed_time, total_elapsed_time, track_log>>
callVars == <<stack, func_out, call_out, calls, openOwner, plain>>
vars == <<name, file_name, is_running, elapsed_time, total_elapsed_time,
          track_log, files, clock, lastOp, ret, raised,
          stack, func_out, call_out, calls, openOwner, plain>>

\* ---- bounds of the model ----
MaxTime == 1        \* largest value the clock reaches
MaxLog == 2         \* cap on the length of the start and of the stop log
MaxBlocked == 2     \* cap on the length of the blocked log
MaxCalls == 3       \* cap on the number of invocations of __call__

\* ---- inputs ----
Names == {"t1"}                   \* names a tracker is constructed with
PersistedNames == {"t1", "t2"}    \* names found in files written by others
Callers == {<<"main.py", 1>>}     \* (filename, lineno) of the calling frame

None == <<>>
Some(x) == <<x>>

\* self.file_name = f'chronodata_{self.name}.json'
FileNameOf(n) == <<"chronodata_", n, ".json">>
FileNames == {FileNameOf(n) : n \in PersistedNames}

\* ---- helpers of get_elapsed_time ----
Last(s) == s[Len(s)]
Front(s) == SubSeq(s, 1, Len(s) - 1)

\* list.pop() on the start log; the local start_log is the list stored in
\* self.track_log['start'], not a copy of it
PopIfRunning(log, running) == IF running THEN Front(log) ELSE log

\* for start, stop in zip(start_log, stop_log): _elapsed_time += stop - start
RECURSIVE ZipSum(_, _, _)
ZipSum(starts, stops, acc) ==
    IF starts = <<>> \/ stops = <<>> THEN acc
    ELSE ZipSum(Tail(starts), Tail(stops), acc + (Head(stops) - Head(starts)))

\* if self.elapsed_time is None: _elapsed_time = 0
\* the local _elapsed_time is bound only on this branch
SeedBound(elapsed) == elapsed = None

\* self.total_elapsed_time = stop[-1] - start[0]
TotalOf(log) == Last(log.stop) - log.start[1]

\* ---- _save_block_log ----
BlockedMessage(qualname, reason) == <<"Blocked: ", qualname, "; ", reason>>
BlockRecord(caller, qualname, reason) ==
    [kind |-> "tuple", local |-> caller[1], line |-> caller[2],
     message |-> BlockedMessage(qualname, reason)]
SaveBlockLog(log, caller, qualname, reason) ==
    [log EXCEPT !.blocked = Append(@, BlockRecord(caller, qualname, reason))]

\* ---- json.dump / json.load ----
\* json.dump writes tuples and lists alike as arrays; json.load reads every
\* array back as a list.  Numbers, booleans, strings and null are kept.
DumpEntry(e) == [e EXCEPT !.kind = "array"]
LoadEntry(e) == [e EXCEPT !.kind = "list"]
JsonDump(data) ==
    [data EXCEPT !.log = [@ EXCEPT !.blocked = [i \in 1..Len(@) |-> DumpEntry(@[i])]]]
JsonLoad(text) ==
    [text EXCEPT !.log = [@ EXCEPT !.blocked = [i \in 1..Len(@) |-> LoadEntry(@[i])]]]

\* a file whose text is not JSON: json.load raises JSONDecodeError
Malformed == [syntax_error |-> TRUE]
Parses(text) == "syntax_error" \notin DOMAIN text

\* the keys load() reads, in the order of its assignments
LoadKeys == <<"name", "is_running", "elapsed_time", "total_elapsed_time", "log">>
\* the object holds every key load() reads
Complete(data) == \A i \in 1..Len(LoadKeys) : LoadKeys[i] \in DOMAIN data
\* data[key] is reached and read: no earlier subscript raised KeyError
Assigned(key, data) ==
    \E i \in 1..Len(LoadKeys) :
        /\ LoadKeys[i] = key
        /\ \A j \in 1..i : LoadKeys[j] \in DOMAIN data

Init ==
    /\ name \in Names
    /\ file_name = FileNameOf(name)
    /\ is_running = FALSE
    /\ elapsed_time = None
    /\ total_elapsed_time = None
    /\ track_log = [start |-> <<>>, stop |-> <<>>, blocked |-> <<>>]
    /\ files = [f \in FileNames |-> None]
    /\ clock = 0
    /\ lastOp = "init"
    /\ ret = None
    /\ raised = "none"
    /\ stack = <<>>
    /\ func_out = None
    /\ call_out = None
    /\ calls = 0
    /\ openOwner = 0
    /\ plain = TRUE

\* ---- start ----
\* start without the is_running test of the decorator
StartUnguarded(caller) ==
    /\ lastOp' = "start"
    /\ raised' = "none"
    /\ Len(track_log.start) < MaxLog
    /\ is_running' = TRUE
    /\ \E t \in clock..MaxTime :
         /\ clock' = t
         /\ track_log' = [track_log EXCEPT !.start = Append(@, t)]
         /\ ret' = Some(t)
    /\ UNCHANGED <<name, file_name, elapsed_time, total_elapsed_time, files>>

Start(caller) ==
    /\ lastOp' = "start"
    /\ raised' = "none"
    /\ IF is_running
       THEN /\ Len(track_log.blocked) < MaxBlocked
            /\ track_log' = SaveBlockLog(track_log, caller,
                               "TimeTracker.start", "Double call!")
            /\ ret' = None
            /\ UNCHANGED <<is_running, clock>>
       ELSE /\ Len(track_log.start) < MaxLog
            /\ is_running' = TRUE
            /\ \E t \in clock..MaxTime :
                 /\ clock' = t
                 /\ track_log' = [track_log EXCEPT !.start = Append(@, t)]
                 /\ ret' = Some(t)
    /\ UNCHANGED <<name, file_name, elapsed_time, total_elapsed_time, files>>

\* ---- stop ----
\* stop that logs the timestamp but leaves is_running set
StopKeepsRunning(caller) ==
    /\ lastOp' = "stop"
    /\ raised' = "none"
    /\ IF ~is_running
       THEN /\ Len(track_log.blocked) < MaxBlocked
            /\ track_log' = SaveBlockLog(track_log, caller,
                               "TimeTracker.stop", "Double call!")
            /\ ret' = None
            /\ UNCHANGED <<is_running, clock>>
       ELSE /\ Len(track_log.stop) < MaxLog
            /\ UNCHANGED is_running
            /\ \E t \in clock..MaxTime :
                 /\ clock' = t
                 /\ track_log' = [track_log EXCEPT !.stop = Append(@, t)]
                 /\ ret' = Some(t)
    /\ UNCHANGED <<name, file_name, elapsed_time, total_elapsed_time, files>>

Stop(caller) ==
    /\ lastOp' = "stop"
    /\ raised' = "none"
    /\ IF ~is_running
       THEN /\ Len(track_log.blocked) < MaxBlocked
            /\ track_log' = SaveBlockLog(track_log, caller,
                               "TimeTracker.stop", "Double call!")
            /\ ret' = None
            /\ UNCHANGED <<is_running, clock>>
       ELSE /\ Len(track_log.stop) < MaxLog
            /\ is_running' = FALSE
            /\ \E t \in clock..MaxTime :
                 /\ clock' = t
                 /\ track_log' = [track_log EXCEPT !.stop = Append(@, t)]
                 /\ ret' = Some(t)
    /\ UNCHANGED <<name, file_name, elapsed_time, total_elapsed_time, files>>

\* ---- get_elapsed_time ----
\* the decorated body, entered only with both logs non-empty
GetElapsedTimeBody ==
    LET popped == PopIfRunning(track_log.start, is_running) IN
    /\ total_elapsed_time' = Some(TotalOf(track_log))
    /\ track_log' = [track_log EXCEPT !.start = popped]
    /\ IF SeedBound(elapsed_time)
       THEN /\ elapsed_time' = Some(ZipSum(popped, track_log.stop, 0))
            /\ ret' = elapsed_time'
            /\ raised' = "none"
       ELSE \* _elapsed_time is read before it was ever assigned
            /\ raised' = "UnboundLocalError"
            /\ ret' = None
            /\ UNCHANGED elapsed_time

\* get_elapsed_time answering 0 instead of blocking when no stop was logged
GetElapsedTimeZeroWhenPremature(caller) ==
    /\ lastOp' = "get_elapsed_time"
    /\ IF track_log.start = <<>>
       THEN /\ Len(track_log.blocked) < MaxBlocked
            /\ track_log' = SaveBlockLog(track_log, caller,
                  "TimeTracker.get_elapsed_time",
                  "The tracker hasn't started yet!")
            /\ ret' = None
            /\ raised' = "none"
            /\ UNCHANGED <<elapsed_time, total_elapsed_time>>
       ELSE IF track_log.stop = <<>>
       THEN /\ elapsed_time' = Some(0)
            /\ ret' = Some(0)
            /\ raised' = "none"
            /\ UNCHANGED <<track_log, total_elapsed_time>>
       ELSE GetElapsedTimeBody
    /\ UNCHANGED <<name, file_name, is_running, files, clock>>

GetElapsedTime(caller) ==
    /\ lastOp' = "get_elapsed_time"
    /\ IF track_log.start = <<>>
       THEN /\ Len(track_log.blocked) < MaxBlocked
            /\ track_log' = SaveBlockLog(track_log, caller,
                  "TimeTracker.get_elapsed_time",
                  "The tracker hasn't started yet!")
            /\ ret' = None
            /\ raised' = "none"
            /\ UNCHANGED <<elapsed_time, total_elapsed_time>>
       ELSE IF track_log.stop = <<>>
       THEN /\ Len(track_log.blocked) < MaxBlocked
            /\ track_log' = SaveBlockLog(track_log, caller,
                  "TimeTracker.get_elapsed_time",
                  "The tracker hasn't been completed yet!")
            /\ ret' = None
            /\ raised' = "none"
            /\ UNCHANGED <<elapsed_time, total_elapsed_time>>
       ELSE GetElapsedTimeBody
    /\ UNCHANGED <<name, file_name, is_running, files, clock>>

\* ---- save ----
Save ==
    LET data == [name |-> name, is_running |-> is_running,
                 elapsed_time |-> elapsed_time,
                 total_elapsed_time |-> total_elapsed_time,
                 log |-> track_log] IN
    /\ lastOp' = "save"
    /\ files' = [files EXCEPT ![file_name] = Some(JsonDump(data))]
    /\ ret' = None
    /\ raised' = "none"
    /\ UNCHANGED <<name, file_name, is_running, elapsed_time,
                   total_elapsed_time, track_log, clock>>

\* ---- load ----
Load ==
    /\ lastOp' = "load"
    /\ ret' = None
    /\ IF files[file_name] = None
       THEN /\ raised' = "FileNotFoundError"
            /\ UNCHANGED timerVars
       ELSE IF ~Parses(files[file_name][1])
       THEN /\ raised' = "JSONDecodeError"
            /\ UNCHANGED timerVars
       ELSE IF Complete(files[file_name][1])
       THEN LET data == JsonLoad(files[file_name][1]) IN
            /\ name' = data.name
            /\ is_running' = data.is_running
            /\ elapsed_time' = data.elapsed_time
            /\ total_elapsed_time' = data.total_elapsed_time
            /\ track_log' = data.log
            /\ raised' = "none"
       ELSE \* a key is missing: the assignments before it are made, then
            \* the subscript raises KeyError; 'log' is read last
            LET data == files[file_name][1] IN
            /\ name' = IF Assigned("name", data) THEN data.name ELSE name
            /\ is_running' = IF Assigned("is_running", data)
                             THEN data.is_running ELSE is_running
            /\ elapsed_time' = IF Assigned("elapsed_time", data)
                               THEN data.elapsed_time ELSE elapsed_time
            /\ total_elapsed_time' = IF Assigned("total_elapsed_time", data)
                                     THEN data.total_elapsed_time
                                     ELSE total_elapsed_time
            /\ UNCHANGED track_log
            /\ raised' = "KeyError"
    /\ UNCHANGED <<file_name, files, clock>>

\* ---- files written by something other than this tracker ----
\* a well-formed file of a tracker that was saved under another name
ForeignData ==
    [name |-> "t2", is_running |-> TRUE, elapsed_time |-> Some(0),
     total_elapsed_time |-> Some(0),
     log |-> [start |-> <<0, 0>>, stop |-> <<0>>, blocked |-> <<>>]]
Without(data, key) == [k \in DOMAIN data \ {key} |-> data[k]]
\* the same object with one of the keys load() reads left out
SchemaMismatched ==
    {Without(JsonDump(ForeignData), LoadKeys[i]) : i \in 1..Len(LoadKeys)}
ForeignTexts == {Malformed, JsonDump(ForeignData)} \cup SchemaMismatched

WriteFile(text) ==
    /\ lastOp' = "file written"
    /\ ret' = None
    /\ raised' = "none"
    /\ files' = [files EXCEPT ![file_name] = Some(text)]
    /\ UNCHANGED <<name, file_name, is_running, elapsed_time,
                   total_elapsed_time, track_log, clock>>
    /\ UNCHANGED callVars

\* ---- ExecutionTimeTracker.__call__ ----
Args == {5, 7}
\* the wrapped callable; f(x) = x * 2
WrappedFunction(x) == 2 * x
\* start() and stop() see __call__ as their calling frame
CallStartSite == <<"trackers.py", 295>>
CallStopSite == <<"trackers.py", 299>>

\* self.start(), then the callable is entered
CallBegin(x) ==
    /\ calls < MaxCalls
    /\ Start(CallStartSite)
    /\ stack' = Append(stack, [id |-> calls + 1, arg |-> x])
    /\ calls' = calls + 1
    /\ openOwner' = IF is_running THEN openOwner ELSE calls + 1
    /\ plain' = (plain /\ stack = <<>>)
    /\ UNCHANGED <<func_out, call_out>>

\* the callable of the innermost invocation returns:
\* self.func_out = result; self.stop(); return self.func_out
CallReturn ==
    /\ stack # <<>>
    /\ func_out' = Some(WrappedFunction(Last(stack).arg))
    /\ Stop(CallStopSite)
    /\ call_out' = func_out'
    /\ stack' = Front(stack)
    /\ openOwner' = IF is_running THEN 0 ELSE openOwner
    /\ UNCHANGED <<calls, plain>>

\* the callable of the innermost invocation raises: the exception leaves
\* __call__ at line 296, self.stop() is not reached
CallRaise ==
    /\ stack # <<>>
    /\ stack' = Front(stack)
    /\ lastOp' = "call"
    /\ ret' = None
    /\ raised' = "FunctionError"
    /\ plain' = FALSE
    /\ UNCHANGED <<name, file_name, is_running, elapsed_time,
                   total_elapsed_time, track_log, files, clock>>
    /\ UNCHANGED <<func_out, call_out, calls, openOwner>>

\* get_elapsed_time() asked of the tracker between invocations
CallQuery(caller) ==
    /\ stack = <<>>
    /\ GetElapsedTime(caller)
    /\ UNCHANGED callVars

\* the tracker used by hand: no invocation of __call__
Next ==
    \/ \E c \in Callers : Start(c) /\ UNCHANGED callVars
    \/ \E c \in Callers : Stop(c) /\ UNCHANGED callVars
    \/ \E c \in Callers : GetElapsedTime(c) /\ UNCHANGED callVars
    \/ Save /\ UNCHANGED callVars
    \/ Load /\ UNCHANGED callVars

Spec == Init /\ [][Next]_vars

\* the tracker with files that other programs may replace
NextFiles ==
    \/ Next
    \/ \E text \in ForeignTexts : WriteFile(text)

SpecFiles == Init /\ [][NextFiles]_vars

\* the tracker used as a decorator: only __call__ starts and stops it
NextCall ==
    \/ \E x \in Args : CallBegin(x)
    \/ CallReturn
    \/ CallRaise
    \/ \E c \in Callers : CallQuery(c)

SpecCall == Init /\ [][NextCall]_vars

\* ======================= properties =======================

start_log == track_log.start
stop_log == track_log.stop
blocked_log == track_log.blocked

\* the blocked log of the next state is the current one plus one record
OneBlockedAppended ==
    /\ Len(track_log'.blocked) = Len(blocked_log) + 1
    /\ SubSeq(track_log'.blocked, 1, Len(blocked_log)) = blocked_log

HasBlocked(qualname, reason) ==
    \E i \in 1..Len(blocked_log) :
        blocked_log[i].message = BlockedMessage(qualname, reason)

\* sum of (stop - start) over the pairs completed in the given logs
RECURSIVE SumCompleted(_, _)
SumCompleted(starts, stops) ==
    IF starts = <<>> \/ stops = <<>> THEN 0
    ELSE (Head(stops) - Head(starts)) + SumCompleted(Tail(starts), Tail(stops))

\* C1: in every reachable state len(start_log) - len(stop_log) is 0 or 1.
C1_LogLengthsDifferByAtMostOne ==
    Len(start_log) - Len(stop_log) \in {0, 1}

\* C2: in every reachable state is_running is true exactly when the start
\* log is one entry longer than the stop log, and false exactly when the two
\* logs have equal length.
C2_RunningIffUnmatchedStart ==
    /\ is_running <=> (Len(start_log) = Len(stop_log) + 1)
    /\ ~is_running <=> (Len(start_log) = Len(stop_log))

\* C3: start() while running and stop() while not running change nothing
\* but the blocked log, which gains exactly one record, and return None.
C3_SequencingViolationIsNoOp ==
    [][ ((lastOp' = "start" /\ is_running) \/ (lastOp' = "stop" /\ ~is_running))
        => /\ UNCHANGED <<is_running, elapsed_time, total_elapsed_time>>
           /\ track_log'.start = start_log
           /\ track_log'.stop = stop_log
           /\ OneBlockedAppended
           /\ ret' = None
           /\ raised' = "none" ]_vars

\* a blocked stop() has just returned and both a blocked start() and a
\* blocked stop() are on record
C3_Witness ==
    /\ lastOp = "stop" /\ ret = None /\ ~is_running
    /\ HasBlocked("TimeTracker.start", "Double call!")
    /\ HasBlocked("TimeTracker.stop", "Double call!")

\* C4: on a timer that is not running and holds N >= 1 completed pairs,
\* get_elapsed_time() returns the sum of (stop_log[i] - start_log[i]) and
\* sets total_elapsed_time to stop_log[last] - start_log[first].
C4_ElapsedIsSumOfPairs ==
    [][ (lastOp' = "get_elapsed_time" /\ ~is_running
         /\ Len(start_log) = Len(stop_log) /\ Len(start_log) >= 1)
        => /\ ret' = Some(SumCompleted(start_log, stop_log))
           /\ total_elapsed_time' = Some(Last(stop_log) - start_log[1]) ]_vars

\* C5: a get_elapsed_time() call that follows an earlier successful query
\* (elapsed_time already set) still returns the sum over the completed pairs
\* now in the logs.
C5_RecomputedOnEveryQuery ==
    [][ (lastOp' = "get_elapsed_time" /\ elapsed_time # None
         /\ start_log # <<>> /\ stop_log # <<>>)
        => ret' = Some(SumCompleted(
                     IF Len(start_log) > Len(stop_log)
                     THEN Front(start_log) ELSE start_log, stop_log)) ]_vars

\* C6: start(), stop() and get_elapsed_time() never end in an exception.
C6_NeverRaises ==
    lastOp \in {"start", "stop", "get_elapsed_time"} => raised = "none"

\* C7: get_elapsed_time() while running with at least one completed pair
\* returns the sum over the completed pairs and leaves the timer running
\* with the open start still in the start log.
C7_RunningQueryKeepsOpenStart ==
    [][ (lastOp' = "get_elapsed_time" /\ is_running /\ elapsed_time = None
         /\ Len(start_log) = Len(stop_log) + 1 /\ stop_log # <<>>)
        => /\ ret' = Some(SumCompleted(Front(start_log), stop_log))
           /\ is_running'
           /\ Len(track_log'.start) = Len(track_log'.stop) + 1
           /\ Last(track_log'.start) = Last(start_log) ]_vars

\* C8: get_elapsed_time() leaves start_log, stop_log and is_running as they
\* were, whether it succeeds, is blocked or is made while running.
C8_QueryLeavesLogsAlone ==
    [][ lastOp' = "get_elapsed_time"
        => /\ track_log'.start = start_log
           /\ track_log'.stop = stop_log
           /\ is_running' = is_running ]_vars

\* C9: get_elapsed_time() with an empty start log, or with an empty stop
\* log, returns None, appends exactly one blocked record and changes
\* nothing else.
C9_PrematureQueryUnavailable ==
    [][ (lastOp' = "get_elapsed_time"
         /\ (start_log = <<>> \/ stop_log = <<>>))
        => /\ ret' = None
           /\ raised' = "none"
           /\ OneBlockedAppended
           /\ UNCHANGED <<is_running, elapsed_time, total_elapsed_time>>
           /\ track_log'.start = start_log
           /\ track_log'.stop = stop_log ]_vars

\* a premature query has just returned None, and both the query before any
\* start and the query before any stop are on record
C9_Witness ==
    /\ lastOp = "get_elapsed_time" /\ ret = None /\ raised = "none"
    /\ start_log # <<>> /\ stop_log = <<>>
    /\ HasBlocked("TimeTracker.get_elapsed_time",
                  "The tracker hasn't started yet!")
    /\ HasBlocked("TimeTracker.get_elapsed_time",
                  "The tracker hasn't been completed yet!")

\* C10: whenever elapsed_time and total_elapsed_time are both set,
\* total_elapsed_time >= elapsed_time.
C10_TotalAtLeastElapsed ==
    (elapsed_time # None /\ total_elapsed_time # None)
        => total_elapsed_time[1] >= elapsed_time[1]

\* C11: save() followed by load() reproduces name, is_running, elapsed_time,
\* total_elapsed_time and the start, stop and blocked logs exactly as they
\* were saved.
C11_SaveLoadRoundTrip ==
    [][ (lastOp = "save" /\ lastOp' = "load")
        => /\ raised' = "none"
           /\ name' = name
           /\ is_running' = is_running
           /\ elapsed_time' = elapsed_time
           /\ total_elapsed_time' = total_elapsed_time
           /\ track_log'.start = start_log
           /\ track_log'.stop = stop_log
           /\ track_log'.blocked = blocked_log ]_vars

\* C12: a load() that ends in an error (missing, malformed or
\* schema-mismatched file) leaves name, is_running, elapsed_time,
\* total_elapsed_time and the logs as they were before the call.
C12_FailedLoadChangesNothing ==
    [][ (lastOp' = "load" /\ raised' # "none") => UNCHANGED timerVars ]_vars

\* the data a save() in the current state puts into a file
CurrentData ==
    [name |-> name, is_running |-> is_running, elapsed_time |-> elapsed_time,
     total_elapsed_time |-> total_elapsed_time, log |-> track_log]

\* C13: save() writes, and load() reads, the file chronodata_<name> of the
\* name the tracker holds when the call is made.
C13_FileFollowsCurrentName ==
    [][ /\ lastOp' = "save"
           => files'[FileNameOf(name)] = Some(JsonDump(CurrentData))
        /\ lastOp' = "load"
           => (raised' = "FileNotFoundError" <=> files[FileNameOf(name)] = None)
      ]_vars

\* C14: each invocation returns the wrapped callable's result, and after N
\* sequential invocations that returned normally the timer is not running,
\* each log holds N entries, and get_elapsed_time() returns the sum of the
\* N call durations.
C14_CallsAccumulate ==
    [][ /\ (stack # <<>> /\ Len(stack') < Len(stack) /\ lastOp' = "stop")
           => call_out' = Some(WrappedFunction(Last(stack).arg))
        /\ (plain' /\ stack' = <<>>)
           => /\ ~is_running'
              /\ Len(track_log'.start) = calls'
              /\ Len(track_log'.stop) = calls'
        /\ (plain /\ stack = <<>> /\ calls >= 1
            /\ lastOp' = "get_elapsed_time")
           => ret' = Some(SumCompleted(start_log, stop_log)) ]_vars

\* C17: whenever no invocation is in progress the timer is not running and
\* the two logs have equal length.
C17_IdleBetweenInvocations ==
    stack = <<>> => (~is_running /\ Len(start_log) = Len(stop_log))

\* C18: a stop is logged only by the invocation whose start() opened the
\* interval it closes.
C18_IntervalBracketedByOneInvocation ==
    [][ (stack # <<>> /\ Len(track_log'.stop) = Len(stop_log) + 1)
        => Last(stack).id = openOwner ]_vars

\* C15: a start() accepted while not running only appends the timestamp it
\* returns to start_log and sets is_running; a stop() accepted while running
\* only appends the timestamp it returns to stop_log and clears is_running.
C15_SuccessfulStartStopFrame ==
    [][ /\ (lastOp' = "start" /\ ~is_running)
           => /\ Len(ret') = 1
              /\ track_log'.start = Append(start_log, ret'[1])
              /\ is_running'
              /\ track_log'.stop = stop_log
              /\ track_log'.blocked = blocked_log
              /\ raised' = "none"
              /\ UNCHANGED <<elapsed_time, total_elapsed_time, name,
                             file_name, files>>
        /\ (lastOp' = "stop" /\ is_running)
           => /\ Len(ret') = 1
              /\ track_log'.stop = Append(stop_log, ret'[1])
              /\ ~is_running'
              /\ track_log'.start = start_log
              /\ track_log'.blocked = blocked_log
              /\ raised' = "none"
              /\ UNCHANGED <<elapsed_time, total_elapsed_time, name,
                             file_name, files>> ]_vars

\* an accepted stop() has just returned its timestamp, closing an interval
\* that an accepted start() opened
C15_Witness ==
    /\ lastOp = "stop" /\ ret # None /\ ~is_running
    /\ Len(start_log) = Len(stop_log) /\ start_log # <<>>
    /\ Last(stop_log) = ret[1]
    /\ blocked_log = <<>>

\* C16: the logs are chronologically interleaved: start_log[i] <= stop_log[i]
\* wherever both exist, and stop_log[i] <= start_log[i+1] wherever both exist.
C16_LogsInterleaved ==
    /\ \A i \in 1..Len(start_log) :
         i <= Len(stop_log) => start_log[i] <= stop_log[i]
    /\ \A i \in 1..Len(stop_log) :
         i + 1 <= Len(start_log) => stop_log[i] <= start_log[i + 1]

====
